---- MODULE Spec2Model ----
(***************************************************************************)
(* Model of the /recognize relay pipeline of server_main.py: one asyncio   *)
(* event loop runs the `async def recognize` handler of every request.  A  *)
(* handler runs without interruption from one `await` to the next, so each *)
(* action below is the code between two suspension points.  The call       *)
(* whisper_model.transcribe(...) is synchronous: while a request is inside *)
(* it the event loop thread is held and no other handler step can run.     *)
(***************************************************************************)
EXTENDS Integers, Sequences, FiniteSets, TLC

\* ---- bounds ------------------------------------------------------------
NumReqs == 2        \* requests handled by the process
NumNames == 2       \* names the temporary directory can hand out
MaxPad == 1         \* most whitespace on either side of the engine's text

Reqs == 1..NumReqs
Names == 1..NumNames

\* ---- inputs ------------------------------------------------------------
SrcLangs == {"vn", "cn", "en"}           \* form field src_lang

\* what the engine makes out of the audio: nothing, or some words
Cores == {<< >>, <<"a", " ", "b">>}

Spaces(n) == [i \in 1..n |-> " "]

\* result["text"]: the words with whitespace around them
RawTexts == {Spaces(i) \o c \o Spaces(j) : i, j \in 0..MaxPad, c \in Cores}

\* bytes uploaded by request r (distinct per request)
Upload(r) == <<r>>

\* outcomes of one `await client.post(url, json=payload)` attempt
FailOutcomes == {"timeout", "network_error", "non_success", "malformed"}
ReturnOutcomes == {"ok", "no_field"}

\* ---- program constants -------------------------------------------------
\* variant: the "cn" profile translates into its own language
LANG_MAP_SameTarget ==
  [tag \in {"vn", "cn"} |->
     IF tag = "vn"
       THEN [whisper |-> "vi", libre_src |-> "vi", libre_tgt |-> "zh"]
       ELSE [whisper |-> "zh", libre_src |-> "zh", libre_tgt |-> "zh"]]

LANG_MAP ==
  [tag \in {"vn", "cn"} |->
     IF tag = "vn"
       THEN [whisper |-> "vi", libre_src |-> "vi", libre_tgt |-> "zh"]
       ELSE [whisper |-> "zh", libre_src |-> "zh", libre_tgt |-> "vi"]]

servers ==
  << "https://libretranslate.com/translate",
     "https://translate.argosopentech.com/translate",
     "https://libretranslate.de/translate" >>

DegradedMarker == <<"[translation unavailable]", " ">>
NoSpeechError == "no speech recognized"
None == "None"

VARIABLES
  pc,             \* position of each request's handler
  src_lang,       \* form field of each request
  tmp,            \* tmp_path while the handler is alive, 0 otherwise
  fs,             \* temporary directory: existing name -> file
  whisper_calls,  \* calls each request made to whisper_model.transcribe
  result,         \* what transcribe gave the request: the engine's text
                  \* when nothing is recognized in it, recognized_text
                  \* (line 76) otherwise
  calls,          \* payloads each request posted, in order
  returned,       \* outcome of the attempt that made translate return
  failed,         \* urls whose attempt failed for the request
  unlinks,        \* number of os.unlink calls each request made
  resp            \* HTTP response of each request

vars == <<pc, src_lang, tmp, fs, whisper_calls, result, calls, returned,
          failed, unlinks, resp>>

\* ---- pure helpers ------------------------------------------------------
IsSpace(c) == c = " "

RECURSIVE LStrip(_)
LStrip(s) ==
  IF s = <<>> THEN <<>>
  ELSE IF IsSpace(Head(s)) THEN LStrip(Tail(s)) ELSE s

RECURSIVE RStrip(_)
RStrip(s) ==
  IF s = <<>> THEN <<>>
  ELSE IF IsSpace(s[Len(s)]) THEN RStrip(SubSeq(s, 1, Len(s) - 1)) ELSE s

\* variant: the text is used untrimmed
NoStrip(s) == s

\* str.strip()
Strip(s) == RStrip(LStrip(s))

\* text a backend puts in "translatedText" when it answers url number i
BackendText(i) == <<"T", servers[i]>>

\* json=payload of one attempt
Payload(text, src, tgt) == [q |-> text, source |-> src, target |-> tgt]

Post(i, text, cfg) ==
  [url |-> servers[i], payload |-> Payload(text, cfg.libre_src, cfg.libre_tgt)]

Files == DOMAIN fs

\* variant: the name is not checked against the existing files
AnyNames == Names

\* names NamedTemporaryFile can return: O_EXCL creation never reuses a name
\* that exists
FreshNames == Names \ Files

\* a file is its identity (the request that created it) and its bytes
Create(n, r) ==
  [m \in Files \cup {n} |-> IF m = n THEN [ino |-> r, data |-> <<>>] ELSE fs[m]]

\* tmp.write(content) through the open descriptor
Write(n, data) ==
  [m \in Files |-> IF m = n THEN [fs[m] EXCEPT !.data = data] ELSE fs[m]]

Remove(n) == [m \in Files \ {n} |-> fs[m]]

\* variant: the post is made with a blocking client
LoopHeldByPost == \A q \in Reqs : pc[q] \notin {"transcribing", "posting"}

\* variant: transcribe runs off the event loop thread
LoopNeverHeld == TRUE

\* the event loop thread is not inside a synchronous transcribe call
LoopFree == \A q \in Reqs : pc[q] # "transcribing"

\* ---- responses ---------------------------------------------------------
NoResponse == [status |-> 0]

\* line 58
Http400 == [status |-> 400, detail |-> "src_lang must be 'vn' or 'cn'"]

\* line 95
Http500(msg) == [status |-> 500, detail |-> msg]

\* an exception that leaves the handler: the framework answers 500
Unhandled == [status |-> 500, detail |-> "Internal Server Error"]

\* line 79
NoSpeechBody == [status |-> 200, recognized |-> <<>>, translated |-> <<>>,
                 error |-> NoSpeechError]

\* variant: an unavailable translation is reported in the error field
RelayWithError(text, translated) ==
  [status |-> 200, recognized |-> text, translated |-> translated,
   error |-> IF translated = DegradedMarker \o text
               THEN "translation unavailable" ELSE None]

Relay(text, translated) ==
  [status |-> 200, recognized |-> text, translated |-> translated,
   error |-> None]

\* variant: no finally clause
FinallyNoUnlink(r, out) ==
  /\ unlinks' = unlinks
  /\ fs' = fs
  /\ tmp' = [tmp EXCEPT ![r] = 0]
  /\ resp' = [resp EXCEPT ![r] = out]
  /\ pc' = [pc EXCEPT ![r] = "done"]

\* leaving the try block with outcome `out`: the finally clause unlinks
\* tmp_path; os.unlink of a missing path raises and replaces the outcome
Finally(r, out) ==
  /\ unlinks' = [unlinks EXCEPT ![r] = @ + 1]
  /\ tmp' = [tmp EXCEPT ![r] = 0]
  /\ IF tmp[r] \in Files
       THEN /\ fs' = Remove(tmp[r])
            /\ resp' = [resp EXCEPT ![r] = out]
       ELSE /\ fs' = fs
            /\ resp' = [resp EXCEPT ![r] = Unhandled]
  /\ pc' = [pc EXCEPT ![r] = "done"]

Init ==
  /\ pc = [r \in Reqs |-> "idle"]
  /\ src_lang = [r \in Reqs |-> None]
  /\ tmp = [r \in Reqs |-> 0]
  /\ fs = << >>
  /\ whisper_calls = [r \in Reqs |-> << >>]
  /\ result = [r \in Reqs |-> [kind |-> "none"]]
  /\ calls = [r \in Reqs |-> << >>]
  /\ returned = [r \in Reqs |-> None]
  /\ failed = [r \in Reqs |-> {}]
  /\ unlinks = [r \in Reqs |-> 0]
  /\ resp = [r \in Reqs |-> NoResponse]

\* ---- handler steps -----------------------------------------------------

\* variant: the tag is tested after the temporary file was created
RejectAfterAcquire(r, tag) ==
  /\ LoopFree
  /\ pc[r] = "idle"
  /\ tag \notin DOMAIN LANG_MAP
  /\ \E n \in FreshNames : fs' = Create(n, r)
  /\ src_lang' = [src_lang EXCEPT ![r] = tag]
  /\ resp' = [resp EXCEPT ![r] = Http400]
  /\ pc' = [pc EXCEPT ![r] = "done"]
  /\ UNCHANGED <<tmp, whisper_calls, result, calls, returned, failed,
                 unlinks>>

\* lines 57-58: unknown tag
Reject(r, tag) ==
  /\ LoopFree
  /\ pc[r] = "idle"
  /\ tag \notin DOMAIN LANG_MAP
  /\ src_lang' = [src_lang EXCEPT ![r] = tag]
  /\ resp' = [resp EXCEPT ![r] = Http400]
  /\ pc' = [pc EXCEPT ![r] = "done"]
  /\ UNCHANGED <<tmp, fs, whisper_calls, result, calls, returned, failed,
                 unlinks>>

\* lines 57-65: known tag, temporary file created, handler suspends on
\* `await audio.read()`
Accept(r, tag, n) ==
  /\ LoopFree
  /\ pc[r] = "idle"
  /\ tag \in DOMAIN LANG_MAP
  /\ n \in FreshNames
  /\ src_lang' = [src_lang EXCEPT ![r] = tag]
  /\ tmp' = [tmp EXCEPT ![r] = n]
  /\ fs' = Create(n, r)
  /\ pc' = [pc EXCEPT ![r] = "reading"]
  /\ UNCHANGED <<whisper_calls, result, calls, returned, failed, unlinks,
                 resp>>

\* lines 64-66: `await audio.read()` or tmp.write(content) raises.  The
\* with block closes the file (delete=False keeps it), the try block was
\* never entered, and the exception leaves the handler: the framework
\* answers 500.
ReadFault(r) ==
  /\ LoopFree
  /\ pc[r] = "reading"
  /\ resp' = [resp EXCEPT ![r] = Unhandled]
  /\ tmp' = [tmp EXCEPT ![r] = 0]
  /\ pc' = [pc EXCEPT ![r] = "done"]
  /\ UNCHANGED <<src_lang, fs, whisper_calls, result, calls, returned,
                 failed, unlinks>>

\* line 65: the request is cancelled while suspended on `await audio.read()`
CancelRead(r) ==
  /\ LoopFree
  /\ pc[r] = "reading"
  /\ tmp' = [tmp EXCEPT ![r] = 0]
  /\ pc' = [pc EXCEPT ![r] = "cancelled"]
  /\ UNCHANGED <<src_lang, fs, whisper_calls, result, calls, returned,
                 failed, unlinks, resp>>

\* what transcribe(tmp_path, ...) reads: the bytes stored under the path
Heard(path) == IF path \in Files THEN fs'[path].data ELSE <<>>

\* lines 65-75: the read returns, the bytes are written, the file is closed
\* and the synchronous transcribe call starts
ReadDone(r) ==
  /\ LoopFree
  /\ pc[r] = "reading"
  /\ fs' = Write(tmp[r], Upload(r))
  /\ whisper_calls' = [whisper_calls EXCEPT ![r] =
       Append(@, [language |-> LANG_MAP[src_lang[r]].whisper,
                  heard |-> Heard(tmp[r])])]
  /\ pc' = [pc EXCEPT ![r] = "transcribing"]
  /\ UNCHANGED <<src_lang, tmp, result, calls, returned, failed, unlinks, resp>>

\* variant: a failed recognition is tried a second time
TranscribeRaiseRetry(r) ==
  /\ pc[r] = "transcribing"
  /\ IF Len(whisper_calls[r]) < 2
       THEN /\ whisper_calls' = [whisper_calls EXCEPT ![r] =
                 Append(@, @[Len(@)])]
            /\ UNCHANGED <<pc, tmp, fs, result, unlinks, resp>>
       ELSE /\ result' = [result EXCEPT ![r] = [kind |-> "raised"]]
            /\ Finally(r, Http500("engine error"))
            /\ UNCHANGED whisper_calls
  /\ UNCHANGED <<src_lang, calls, returned, failed>>

\* lines 71-75, 94-97: transcribe raises
TranscribeRaise(r) ==
  /\ pc[r] = "transcribing"
  /\ result' = [result EXCEPT ![r] = [kind |-> "raised"]]
  /\ Finally(r, Http500("engine error"))
  /\ UNCHANGED <<src_lang, whisper_calls, calls, returned, failed>>

\* lines 76-79, 96-97: transcribe returns `raw`, nothing is left after strip
\* (the engine can only return text for a path that exists)
NoSpeech(r, raw) ==
  /\ pc[r] = "transcribing"
  /\ tmp[r] \in Files
  /\ Strip(raw) = <<>>
  /\ result' = [result EXCEPT ![r] = [kind |-> "text", text |-> raw]]
  /\ Finally(r, NoSpeechBody)
  /\ UNCHANGED <<src_lang, whisper_calls, calls, returned, failed>>

\* lines 76-86, 103-118: transcribe returns `raw` with text in it; translate
\* posts to the first server and the handler suspends on the answer
Recognized(r, raw) ==
  /\ pc[r] = "transcribing"
  /\ tmp[r] \in Files
  /\ Strip(raw) # <<>>
  /\ result' = [result EXCEPT ![r] = [kind |-> "text", text |-> Strip(raw)]]
  /\ calls' = [calls EXCEPT ![r] =
       <<Post(1, Strip(raw), LANG_MAP[src_lang[r]])>>]
  /\ pc' = [pc EXCEPT ![r] = "posting"]
  /\ UNCHANGED <<src_lang, tmp, fs, whisper_calls, returned, failed, unlinks,
                 resp>>

\* recognized_text of a request that got text
Text(r) == result[r].text

\* variant: the original text is returned without the marker
DegradedBare(text) == text

\* line 124
Degraded(text) == DegradedMarker \o text

\* line 121: data.get("translatedText", text)
Extract(out, i, text) == IF out = "ok" THEN BackendText(i) ELSE text

\* variant: a failed attempt is repeated on the same server once
AttemptFailNextRetry(r, out) ==
  /\ LoopFree
  /\ pc[r] = "posting"
  /\ out \in FailOutcomes
  /\ Len(calls[r]) < Len(servers)
  /\ failed' = [failed EXCEPT ![r] = @ \cup {calls[r][Len(calls[r])].url}]
  /\ calls' = [calls EXCEPT ![r] =
       Append(@, Post(IF Len(@) = 1 THEN 1 ELSE Len(@) + 1, Text(r),
                      LANG_MAP[src_lang[r]]))]
  /\ UNCHANGED <<pc, src_lang, tmp, fs, whisper_calls, result, returned,
                 unlinks, resp>>

\* lines 116-123: the pending attempt fails (the post raises, the status is
\* not 200, or the body does not parse into an object) and another server
\* is left
AttemptFailNext(r, out) ==
  /\ LoopFree
  /\ pc[r] = "posting"
  /\ out \in FailOutcomes
  /\ Len(calls[r]) < Len(servers)
  /\ failed' = [failed EXCEPT ![r] = @ \cup {calls[r][Len(calls[r])].url}]
  /\ calls' = [calls EXCEPT ![r] =
       Append(@, Post(Len(@) + 1, Text(r), LANG_MAP[src_lang[r]]))]
  /\ UNCHANGED <<pc, src_lang, tmp, fs, whisper_calls, result, returned,
                 unlinks, resp>>

\* variant: exhausting the servers raises inside the try block
AttemptFailLastRaise(r, out) ==
  /\ LoopFree
  /\ pc[r] = "posting"
  /\ out \in FailOutcomes
  /\ Len(calls[r]) = Len(servers)
  /\ failed' = [failed EXCEPT ![r] = @ \cup {calls[r][Len(calls[r])].url}]
  /\ Finally(r, Http500("translation failed"))
  /\ UNCHANGED <<src_lang, whisper_calls, result, calls, returned>>

\* lines 116-124, 88-92, 96-97: the attempt on the last server fails
AttemptFailLast(r, out) ==
  /\ LoopFree
  /\ pc[r] = "posting"
  /\ out \in FailOutcomes
  /\ Len(calls[r]) = Len(servers)
  /\ failed' = [failed EXCEPT ![r] = @ \cup {calls[r][Len(calls[r])].url}]
  /\ Finally(r, Relay(Text(r), Degraded(Text(r))))
  /\ UNCHANGED <<src_lang, whisper_calls, result, calls, returned>>

\* variant: the loop does not return on a good answer
AttemptReturnContinue(r, out) ==
  /\ LoopFree
  /\ pc[r] = "posting"
  /\ out \in ReturnOutcomes
  /\ returned' = [returned EXCEPT ![r] = out]
  /\ IF Len(calls[r]) < Len(servers)
       THEN /\ calls' = [calls EXCEPT ![r] =
                 Append(@, Post(Len(@) + 1, Text(r), LANG_MAP[src_lang[r]]))]
            /\ UNCHANGED <<pc, tmp, fs, unlinks, resp>>
       ELSE /\ Finally(r, Relay(Text(r), Extract(out, Len(calls[r]), Text(r))))
            /\ UNCHANGED calls
  /\ UNCHANGED <<src_lang, whisper_calls, result, failed>>

\* lines 119-121, 88-92, 96-97: status 200 and a body that parses into an
\* object, with or without the translatedText key
AttemptReturn(r, out) ==
  /\ LoopFree
  /\ pc[r] = "posting"
  /\ out \in ReturnOutcomes
  /\ returned' = [returned EXCEPT ![r] = out]
  /\ Finally(r, Relay(Text(r), Extract(out, Len(calls[r]), Text(r))))
  /\ UNCHANGED <<src_lang, whisper_calls, result, calls, failed>>

\* variant: the cancellation skips the finally clause
CancelPostLeak(r) ==
  /\ LoopFree
  /\ pc[r] = "posting"
  /\ tmp' = [tmp EXCEPT ![r] = 0]
  /\ pc' = [pc EXCEPT ![r] = "cancelled"]
  /\ UNCHANGED <<src_lang, fs, whisper_calls, result, calls, returned, failed,
                 unlinks, resp>>

\* line 118: the request is cancelled while suspended on the post.
\* CancelledError is not an Exception: neither except clause catches it,
\* the finally clause runs, no response is produced.
CancelPost(r) ==
  /\ LoopFree
  /\ pc[r] = "posting"
  /\ unlinks' = [unlinks EXCEPT ![r] = @ + 1]
  /\ fs' = Remove(tmp[r])
  /\ tmp' = [tmp EXCEPT ![r] = 0]
  /\ pc' = [pc EXCEPT ![r] = "cancelled"]
  /\ UNCHANGED <<src_lang, whisper_calls, result, calls, returned, failed,
                 resp>>

Next ==
  \E r \in Reqs :
    \/ \E tag \in SrcLangs : Reject(r, tag)
    \/ \E tag \in SrcLangs, n \in Names : Accept(r, tag, n)
    \/ ReadFault(r)
    \/ CancelRead(r)
    \/ ReadDone(r)
    \/ TranscribeRaise(r)
    \/ \E raw \in RawTexts : NoSpeech(r, raw)
    \/ \E raw \in RawTexts : Recognized(r, raw)
    \/ \E out \in FailOutcomes : AttemptFailNext(r, out)
    \/ \E out \in FailOutcomes : AttemptFailLast(r, out)
    \/ \E out \in ReturnOutcomes : AttemptReturn(r, out)
    \/ CancelPost(r)

Spec == Init /\ [][Next]_vars

\* the steps of r's handler that do not depend on the caller going away:
\* the read returns or fails, transcribe returns or raises, a post is
\* answered, fails or times out (timeout=15.0, line 115)
Progress(r) ==
  \/ ReadFault(r)
  \/ ReadDone(r)
  \/ TranscribeRaise(r)
  \/ \E raw \in RawTexts : NoSpeech(r, raw)
  \/ \E raw \in RawTexts : Recognized(r, raw)
  \/ \E out \in FailOutcomes : AttemptFailNext(r, out)
  \/ \E out \in FailOutcomes : AttemptFailLast(r, out)
  \/ \E out \in ReturnOutcomes : AttemptReturn(r, out)

\* the two known tags drive the same statements of the handler: the fair
\* specification draws one known and one unknown tag
FairLangs == {"vn", "en"}

FairNext ==
  \E r \in Reqs :
    \/ \E tag \in FairLangs : Reject(r, tag)
    \/ \E tag \in FairLangs, n \in Names : Accept(r, tag, n)
    \/ CancelRead(r)
    \/ CancelPost(r)
    \/ Progress(r)

\* the event loop resumes every handler whose awaited operation has ended
FairSpec ==
  Init /\ [][FairNext]_vars /\ \A r \in Reqs : WF_vars(Progress(r))

\* ---- properties --------------------------------------------------------

\* the file request r created is still in the temporary directory
TmpExists(r) == \E n \in Files : fs[n].ino = r

\* r owns a temporary file it has not yet released
Holding(r) == pc[r] \in {"reading", "transcribing", "posting"}

ValidTag(r) == src_lang[r] \in DOMAIN LANG_MAP

AllServers == {servers[i] : i \in 1..Len(servers)}

AllSpace(s) == \A i \in 1..Len(s) : s[i] = " "

\* C1: every request with a recognized tag that has completed with a 200 or
\* a 500 response has no temporary file left.
C1_NoFileAfterResponse ==
  \A r \in Reqs :
    (ValidTag(r) /\ pc[r] = "done" /\ resp[r].status \in {200, 500})
      => ~TmpExists(r)

\* C2: a request whose src_lang is not a key of the language table ends
\* with 400, creates no temporary file, never calls the recognition engine
\* and posts to no translation backend.
C2_UnknownTagRejected ==
  \A r \in Reqs :
    (src_lang[r] # None /\ ~ValidTag(r))
      => /\ pc[r] = "done"
         /\ resp[r].status = 400
         /\ tmp[r] = 0
         /\ ~TmpExists(r)
         /\ whisper_calls[r] = << >>
         /\ calls[r] = << >>

C2_Witness ==
  \E r \in Reqs : src_lang[r] = "en" /\ pc[r] = "done" /\ resp[r].status = 400

\* C3: when the recognition engine raises, the request ends with 500, its
\* temporary file is gone when the response exists, and nothing was posted
\* to a translation backend.
C3_EngineFault ==
  \A r \in Reqs :
    result[r].kind = "raised"
      => /\ pc[r] = "done"
         /\ resp[r].status = 500
         /\ ~TmpExists(r)
         /\ calls[r] = << >>

C3_Witness ==
  \E r \in Reqs :
    result[r].kind = "raised" /\ resp[r].status = 500 /\ unlinks[r] = 1

\* C4: when the engine returns text that is only whitespace (or nothing),
\* the request ends with 200, recognized and translated empty, error set,
\* and nothing was posted to a translation backend.
C4_NoSpeech ==
  \A r \in Reqs :
    (result[r].kind = "text" /\ AllSpace(result[r].text))
      => /\ pc[r] = "done"
         /\ resp[r].status = 200
         /\ resp[r].recognized = << >>
         /\ resp[r].translated = << >>
         /\ resp[r].error # None
         /\ calls[r] = << >>

C4_Witness ==
  \E r \in Reqs :
    /\ result[r].kind = "text"
    /\ result[r].text = <<" ">>
    /\ resp[r].status = 200

\* C5: when text was recognized and the attempt on every server failed
\* (timeout, network error, non-success status or malformed body), the
\* request ends with 200, recognized is the text, error is null and
\* translated is the degraded marker followed by the text.
C5_AllBackendsFail ==
  \A r \in Reqs :
    failed[r] = AllServers
      => /\ pc[r] = "done"
         /\ resp[r].status = 200
         /\ resp[r].recognized = calls[r][1].payload.q
         /\ resp[r].recognized # << >>
         /\ resp[r].error = None
         /\ resp[r].translated = DegradedMarker \o resp[r].recognized

C5_Witness ==
  \E r \in Reqs :
    /\ failed[r] = AllServers
    /\ unlinks[r] = 1
    /\ resp[r].status = 200

\* the request got a good answer from a backend
Succeeded(r) == returned[r] # None

\* C6: after an attempt of a request succeeds no further server is
\* contacted for it; if the first attempt succeeds exactly one post is made.
C6_ShortCircuit ==
  /\ [](\A r \in Reqs : (Succeeded(r) /\ failed[r] = {}) => Len(calls[r]) = 1)
  /\ [][\A r \in Reqs : Succeeded(r) => calls'[r] = calls[r]]_vars

C6_Witness ==
  \E r \in Reqs :
    returned[r] = "ok" /\ Len(calls[r]) = 1 /\ resp[r].status = 200

\* C7 as stated: a request ends with 500 only if the engine raised.
C7_Only500FromEngine ==
  \A r \in Reqs :
    (ValidTag(r) /\ resp[r].status = 500) => result[r].kind = "raised"

\* C7 amended: a request that acquired its temporary file ends with 500 only
\* if the engine raised or the upload could not be read or written into the
\* file before recognition started; a request that reached the translation
\* step never ends with 500.
C7_Only500FromEngineOrRead ==
  \A r \in Reqs :
    (ValidTag(r) /\ resp[r].status = 500)
      => /\ result[r].kind = "raised" \/ whisper_calls[r] = << >>
         /\ calls[r] = << >>

C7_Witness ==
  \E r, q \in Reqs :
    /\ resp[r].status = 500
    /\ result[r].kind = "none"
    /\ failed[q] = AllServers
    /\ resp[q].status = 200

\* C8: in a 200 response error is non-null exactly when recognized is
\* empty; whenever a translation was attempted error is null.
C8_ErrorOnlyForNoSpeech ==
  \A r \in Reqs :
    resp[r].status = 200
      => /\ (resp[r].error # None) <=> (resp[r].recognized = << >>)
         /\ calls[r] # << >> => resp[r].error = None

C8_Witness ==
  \E r, q \in Reqs :
    /\ resp[r].status = 200
    /\ resp[r].error # None
    /\ resp[q].status = 200
    /\ failed[q] = AllServers
    /\ resp[q].error = None

\* C9: two requests never hold the same temporary file name at once, the
\* engine is given exactly the bytes the request uploaded, and the file of
\* a request that has not released it is never removed by another request.
C9_NoCrossContamination ==
  /\ \A r, q \in Reqs :
       (r # q /\ Holding(r) /\ Holding(q)) => tmp[r] # tmp[q]
  /\ \A r \in Reqs :
       \A i \in 1..Len(whisper_calls[r]) :
         whisper_calls[r][i].heard = Upload(r)
  /\ \A r \in Reqs : Holding(r) => (tmp[r] \in Files /\ fs[tmp[r]].ino = r)

C9_Witness ==
  \E r, q \in Reqs :
    /\ pc[r] = "posting"
    /\ pc[q] = "transcribing"
    /\ whisper_calls[q][1].heard = Upload(q)

\* C10: a request cancelled at a suspension point leaves no temporary file.
C10_CancelLeavesNoFile ==
  \A r \in Reqs : pc[r] = "cancelled" => ~TmpExists(r)


\* posts of r that have been sent and not yet answered
InFlight(r) ==
  {i \in 1..Len(calls[r]) :
     /\ calls[r][i].url \notin failed[r]
     /\ ~(i = Len(calls[r]) /\ returned[r] # None)}

\* C11: the servers are contacted in list order, each at most once, with at
\* most one attempt in flight; server k is contacted only after every
\* server before it has failed, and a translation taken from a backend is
\* the answer of the first server that did not fail.
C11_OrderedFailover ==
  \A r \in Reqs :
    /\ Len(calls[r]) <= Len(servers)
    /\ \A i \in 1..Len(calls[r]) :
         /\ calls[r][i].url = servers[i]
         /\ \A j \in 1..(i - 1) : servers[j] \in failed[r]
    /\ Cardinality(InFlight(r)) <= 1
    /\ returned[r] = "ok"
         => /\ resp[r].translated = BackendText(Len(calls[r]))
            /\ servers[Len(calls[r])] \notin failed[r]

C11_Witness ==
  \E r \in Reqs :
    /\ failed[r] = {servers[1]}
    /\ returned[r] = "ok"
    /\ Len(calls[r]) = 2
    /\ resp[r].translated = BackendText(2)

\* C12: a 200 answer whose body has no translated-text field counts as a
\* failed attempt: translate never returns because of such an answer.
C12_MissingFieldIsFailure ==
  \A r \in Reqs : returned[r] # "no_field"

\* C13: every request that created a temporary file and has ended has
\* called os.unlink exactly once and left no file, whatever the exit path.
C13_ReleasedExactlyOnce ==
  \A r \in Reqs :
    (ValidTag(r) /\ pc[r] \in {"done", "cancelled"})
      => (unlinks[r] = 1 /\ ~TmpExists(r))


\* C14 as stated: when a translation backend is contacted for a request,
\* the request's temporary file has already been removed.
C14_ReleasedBeforeTranslate ==
  \A r \in Reqs : calls[r] # << >> => ~TmpExists(r)

\* C14 amended: once recognition has started, the temporary file exists as
\* long as the handler is inside the try block (recognition and every
\* translation attempt included) and is gone when the request has ended.
C14_HeldUntilHandlerEnds ==
  \A r \in Reqs :
    whisper_calls[r] # << >>
      => /\ pc[r] \in {"transcribing", "posting"} => TmpExists(r)
         /\ pc[r] \in {"done", "cancelled"} => ~TmpExists(r)

C14_Witness ==
  \E r, q \in Reqs :
    /\ pc[r] = "posting" /\ Len(calls[r]) = Len(servers) /\ TmpExists(r)
    /\ pc[q] = "cancelled" /\ calls[q] # << >> /\ ~TmpExists(q)

\* requests inside whisper_model.transcribe
Transcribing == {r \in Reqs : pc[r] = "transcribing"}

\* C15: at most one request is inside the recognition call at any instant.
C15_RecognitionSerialized == Cardinality(Transcribing) <= 1

C15_Witness ==
  \E r, q \in Reqs :
    /\ pc[r] = "transcribing"
    /\ pc[q] = "reading"
    /\ ~ENABLED ReadDone(q)


\* the next step of q's handler, whichever it is, can be taken now
CanStep(q) ==
  /\ pc[q] = "idle"
       => /\ ENABLED (\E n \in Names : Accept(q, "vn", n))
          /\ ENABLED Reject(q, "en")
  /\ pc[q] = "reading" => ENABLED ReadDone(q)
  /\ pc[q] = "transcribing"
       => /\ ENABLED TranscribeRaise(q)
          /\ ENABLED (\E raw \in RawTexts : NoSpeech(q, raw))
          /\ ENABLED (\E raw \in RawTexts : Recognized(q, raw))
  /\ pc[q] = "posting"
       => /\ ENABLED AttemptReturn(q, "ok")
          /\ ENABLED (AttemptFailNext(q, "timeout")
                        \/ AttemptFailLast(q, "timeout"))

\* C16: while a request waits on a translation attempt (holding its
\* temporary file), every other request can take its next step, whatever
\* that step is: only a request inside the recognition call, never a
\* pending translation or a held file, keeps another request from running.
C16_TranslationDoesNotBlock ==
  \A r, q \in Reqs :
    (r # q /\ pc[r] = "posting" /\ Transcribing \subseteq {q}) => CanStep(q)

C16_Witness ==
  \E r, q \in Reqs :
    /\ pc[r] = "posting" /\ Len(calls[r]) = 1 /\ TmpExists(r)
    /\ pc[q] = "done" /\ resp[q].status = 200 /\ Len(calls[q]) = Len(servers)


\* some step of q's handler
AnyStep(q) ==
  \/ \E tag \in SrcLangs : Reject(q, tag)
  \/ \E tag \in SrcLangs, n \in Names : Accept(q, tag, n)
  \/ ReadFault(q)
  \/ CancelRead(q)
  \/ ReadDone(q)
  \/ TranscribeRaise(q)
  \/ \E raw \in RawTexts : NoSpeech(q, raw)
  \/ \E raw \in RawTexts : Recognized(q, raw)
  \/ \E out \in FailOutcomes : AttemptFailNext(q, out)
  \/ \E out \in FailOutcomes : AttemptFailLast(q, out)
  \/ \E out \in ReturnOutcomes : AttemptReturn(q, out)
  \/ CancelPost(q)

\* C17: the handler can be suspended exactly at the recognition call and at
\* each translation attempt: while a request is inside recognition every
\* other request can take its next step, and while a request is reading its
\* uploaded bytes no step of another request can be taken.
C17_SuspensionPoints ==
  \A r, q \in Reqs :
    r # q =>
      /\ pc[r] = "transcribing" => CanStep(q)
      /\ pc[r] = "reading" => ~ENABLED AnyStep(q)


\* the codes the two profiles are to use
HintOf(tag) == IF tag = "vn" THEN "vi" ELSE "zh"
OtherOf(code) == IF code = "vi" THEN "zh" ELSE "vi"

\* C18: recognition is given the language of the request's tag (vn: vi,
\* cn: zh); every post of the request translates from that language into
\* the other one and carries the same recognized text.
C18_LanguageProfile ==
  \A r \in Reqs :
    src_lang[r] \in {"vn", "cn"}
      => /\ \A i \in 1..Len(whisper_calls[r]) :
              whisper_calls[r][i].language = HintOf(src_lang[r])
         /\ \A i \in 1..Len(calls[r]) :
              /\ calls[r][i].payload.source = HintOf(src_lang[r])
              /\ calls[r][i].payload.target = OtherOf(HintOf(src_lang[r]))
              /\ calls[r][i].payload.q = calls[r][1].payload.q
              /\ calls[r][i].payload.q = result[r].text
              /\ ~AllSpace(calls[r][i].payload.q)

C18_Witness ==
  \E r, q \in Reqs :
    /\ src_lang[r] = "cn" /\ Len(calls[r]) = Len(servers)
    /\ calls[r][3].payload.target = "vi"
    /\ src_lang[q] = "vn" /\ Len(calls[q]) = Len(servers)
    /\ calls[q][3].payload.target = "zh"


\* r has been answered
Answered(r) == resp[r].status \in {400, 200, 500}

\* C19: every request that arrives and is not cancelled is eventually
\* answered, exactly once, after at most one recognition call and at most
\* one post per server; nothing is called again after the answer.
C19_OneResponse ==
  /\ [](\A r \in Reqs :
          /\ Len(whisper_calls[r]) <= 1
          /\ Len(calls[r]) <= Len(servers)
          /\ \A i, j \in 1..Len(calls[r]) :
               calls[r][i].url = calls[r][j].url => i = j
          /\ Answered(r) <=> pc[r] = "done")
  /\ [][\A r \in Reqs :
          Answered(r) => /\ resp'[r] = resp[r]
                         /\ whisper_calls'[r] = whisper_calls[r]
                         /\ calls'[r] = calls[r]]_vars
  /\ \A r \in Reqs : (pc[r] # "idle") ~> (pc[r] \in {"done", "cancelled"})

C19_Witness ==
  \E r \in Reqs :
    /\ Answered(r)
    /\ Len(whisper_calls[r]) = 1
    /\ Len(calls[r]) = Len(servers)

====
